---------------------------- MODULE Spec2Model ----------------------------
(***************************************************************************)
(* A model of parse.py, the watch-face renderer: the expression resolver,  *)
(* the ring allocator, the angular position expander, the angular          *)
(* occupancy bookkeeping and the assembly of the markup.                   *)
(*                                                                         *)
(* Numbers are exact rationals <<n, d>> with d > 0 in lowest terms.  A     *)
(* Python value whose type the code inspects is a record [t |-> type, ...].*)
(* A call that raises is the record [ok |-> FALSE, err |-> exception].     *)
(***************************************************************************)
EXTENDS Integers, Sequences, FiniteSets, TLC

VARIABLES
    watch,      \* get_svg: the description (dictionary, elements) read from watch_str
    pc,         \* get_svg: "start", "rings" (in the loop), "returned", "raised"
    resolved,   \* get_svg: elements, the resolved rings
    rs,         \* get_svg: rs, the radii of the rings
    visited,    \* get_svg: the number of rings the loop has visited
    emitted,    \* get_svg: out, the fragments emitted so far
    occupied,   \* get_svg: ranges, the list of GrpRanges, one per ring rendered
    markup,     \* get_svg: the markup returned
    raised,     \* get_svg: the exception raised and the line of get_svg it passed
    call,       \* the last call of a function called on its own
    ret,        \* the result of that call
    filled      \* the ranges recorded by the calls of get_ranges

vars == <<watch, pc, resolved, rs, visited, emitted, occupied, markup, raised,
          call, ret, filled>>

(***************************************************************************)
(* Exact arithmetic                                                        *)
(***************************************************************************)
Abs(n) == IF n < 0 THEN -n ELSE n

RECURSIVE Gcd(_, _)
Gcd(a, b) == IF b = 0 THEN a ELSE Gcd(b, a % b)

\* the rational n/d (d # 0) in lowest terms with a positive denominator
Rat(n, d) ==
    LET g == Gcd(Abs(n), Abs(d))
        s == IF d < 0 THEN -1 ELSE 1
    IN  <<(s * n) \div g, (s * d) \div g>>

RInt(n) == <<n, 1>>
RAdd(a, b) == Rat(a[1] * b[2] + b[1] * a[2], a[2] * b[2])
RSub(a, b) == Rat(a[1] * b[2] - b[1] * a[2], a[2] * b[2])
RMul(a, b) == Rat(a[1] * b[1], a[2] * b[2])
\* b # 0
RDiv(a, b) == Rat(a[1] * b[2], a[2] * b[1])
RNeg(a) == <<-a[1], a[2]>>
RLt(a, b) == a[1] * b[2] < b[1] * a[2]
RLe(a, b) == a[1] * b[2] <= b[1] * a[2]
RMax(a, b) == IF RLt(a, b) THEN b ELSE a
RMin(a, b) == IF RLt(a, b) THEN a ELSE b
RIsInt(a) == a[2] = 1

Zero == RInt(0)
One == RInt(1)

\* the sequence s[1] \o s[2] \o ... of a sequence of sequences
RECURSIVE Flatten(_)
Flatten(s) == IF s = <<>> THEN <<>> ELSE Head(s) \o Flatten(Tail(s))

\* the reversed sequence
Reversed(s) == [i \in 1..Len(s) |-> s[Len(s) + 1 - i]]


(***************************************************************************)
(* Python values                                                           *)
(***************************************************************************)
PInt(n) == [t |-> "int", v |-> RInt(n)]
PFloat(q) == [t |-> "float", v |-> q]
PStr(s) == [t |-> "str", v |-> s]
PList(xs) == [t |-> "list", v |-> xs]
\* a set is held as the sequence of its members in iteration order
PSet(xs) == [t |-> "set", v |-> xs]
None == [t |-> "None"]
\* isinstance(x, Number)
IsNumber(x) == x.t \in {"int", "float"}

\* the outcome of a call: an exception raised, or a value returned
Raise(e) == [ok |-> FALSE, err |-> e]
Return(v) == [ok |-> TRUE, v |-> v]

(***************************************************************************)
(* Angular position expander                                               *)
(***************************************************************************)
\* [i / n for i in range(n)] for an int n
Fractions(n) == [i \in 1..(IF n > 0 THEN n ELSE 0) |-> PFloat(Rat(i - 1, n))]

\* the mutant of FisInRange: the upper bound is exclusive
FisInRangeStrict(start, end, fi) == RLe(start, fi) /\ RLt(fi, end)

\* start <= i/n <= end
FisInRange(start, end, fi) == RLe(start, fi) /\ RLe(fi, end)

get_fis(pos) ==
    IF pos.t = "set" THEN Return(pos)
    ELSE IF IsNumber(pos) THEN
        IF pos.t # "int" THEN Raise("TypeError")
        ELSE Return(PList(Fractions(pos.v[1])))
    ELSE IF pos.t = "list" THEN
        IF Len(pos.v) = 0 THEN Raise("IndexError")
        ELSE LET n == pos.v[1] IN
        IF Len(pos.v) = 1 THEN Raise("IndexError")
        ELSE LET start == IF Len(pos.v) = 2 THEN PInt(0) ELSE pos.v[2]
                 end == IF Len(pos.v) = 2 THEN pos.v[2] ELSE pos.v[3]
             IN
        IF n.t # "int" THEN Raise("TypeError")
        ELSE LET all == Fractions(n.v[1]) IN
        IF all = <<>> THEN Return(PList(<<>>))
        ELSE IF ~IsNumber(start) THEN Raise("TypeError")
        ELSE IF ~IsNumber(end)
            THEN IF \E i \in 1..Len(all) : RLe(start.v, all[i].v)
                 THEN Raise("TypeError") ELSE Return(PList(<<>>))
        ELSE Return(PList(SelectSeq(all,
                 LAMBDA fi : FisInRange(start.v, end.v, fi.v))))
    ELSE Return(None)

(***************************************************************************)
(* Angular occupancy bookkeeping                                           *)
(***************************************************************************)
BORDER_FACTOR == Rat(1, 10)

\* the mutant of get_ranges: the wrapped part is not brought back into [0,1]
get_ranges_nowrap(pos, width) ==
    LET border == RMul(width, BORDER_FACTOR)
        start == RSub(RSub(pos, RDiv(width, RInt(2))), border)
        end == RAdd(RAdd(pos, RDiv(width, RInt(2))), border)
    IN  IF RLt(start, Zero) THEN <<<<start, One>>, <<Zero, end>>>>
        ELSE IF RLt(One, end) THEN <<<<start, One>>, <<Zero, end>>>>
        ELSE <<<<start, end>>>>

get_ranges(pos, width) ==
    LET border == RMul(width, BORDER_FACTOR)
        start == RSub(RSub(pos, RDiv(width, RInt(2))), border)
        end == RAdd(RAdd(pos, RDiv(width, RInt(2))), border)
    IN  IF RLt(start, Zero) THEN <<<<RAdd(start, One), One>>, <<Zero, end>>>>
        ELSE IF RLt(One, end) THEN <<<<start, One>>, <<Zero, RSub(end, One)>>>>
        ELSE <<<<start, end>>>>

rng_intersects(rng, filled_ranges) ==
    LET start == rng[1]
        end == rng[2]
    IN  \E i \in 1..Len(filled_ranges) :
            LET f_start == filled_ranges[i][1]
                f_end == filled_ranges[i][2]
            IN  \/ RLt(f_start, start) /\ RLt(start, f_end)
                \/ RLt(f_start, end) /\ RLt(end, f_end)
                \/ RLt(start, f_start) /\ RLt(f_end, end)

\* math.asin(x) / (2 * pi) for -1 <= x <= 1, in turns: exact at 0, 1/2 and 1
\* (0, 1/12 and 1/4 of a turn), linear between them, odd.
AsinTurns(x) ==
    LET a == IF RLt(x, Zero) THEN RNeg(x) ELSE x
        y == IF RLe(a, Rat(1, 2)) THEN RDiv(a, RInt(6))
             ELSE RAdd(Rat(1, 12), RDiv(RSub(a, Rat(1, 2)), RInt(3)))
    IN  IF RLt(x, Zero) THEN RNeg(y) ELSE y

compute_angular_width(width, offset) ==
    LET r == RSub(RInt(100), offset) IN
    IF r = Zero THEN Raise("ZeroDivisionError")
    ELSE LET a_sin == RDiv(width, r) IN
         IF RLt(One, a_sin) \/ RLt(a_sin, RNeg(One)) THEN Raise("ValueError")
         ELSE Return(AsinTurns(a_sin))


(***************************************************************************)
(* Safe expression evaluator.  A str is the sequence of its characters.    *)
(***************************************************************************)
Digits == {"0", "1", "2", "3", "4", "5", "6", "7", "8", "9"}
DigitVal == [c \in Digits |->
    CASE c = "0" -> 0 [] c = "1" -> 1 [] c = "2" -> 2 [] c = "3" -> 3
      [] c = "4" -> 4 [] c = "5" -> 5 [] c = "6" -> 6 [] c = "7" -> 7
      [] c = "8" -> 8 [] c = "9" -> 9]
DigitChr == <<"0", "1", "2", "3", "4", "5", "6", "7", "8", "9">>
\* [a-zA-Z]
Letters == {"a", "b", "c", "d", "e", "f", "g", "h", "i", "j", "k", "l", "m",
            "n", "o", "p", "q", "r", "s", "t", "u", "v", "w", "x", "y", "z",
            "A", "B", "C", "D", "E", "F", "G", "H", "I", "J", "K", "L", "M",
            "N", "O", "P", "Q", "R", "S", "T", "U", "V", "W", "X", "Y", "Z"}

\* the decimal digits of n >= 0
RECURSIVE NatStr(_)
NatStr(n) == IF n < 10 THEN <<DigitChr[n + 1]>>
             ELSE NatStr(n \div 10) \o <<DigitChr[(n % 10) + 1]>>

\* str(value) of an int
StrOfInt(n) == IF n < 0 THEN <<"-">> \o NatStr(-n) ELSE NatStr(n)

\* the mutant of Replace: only the first occurrence is replaced
RECURSIVE ReplaceFirst(_, _, _)
ReplaceFirst(s, key, rep) ==
    IF Len(s) < Len(key) THEN s
    ELSE IF SubSeq(s, 1, Len(key)) = key
         THEN rep \o SubSeq(s, Len(key) + 1, Len(s))
         ELSE <<s[1]>> \o ReplaceFirst(Tail(s), key, rep)

\* s.replace(key, rep) for a non-empty key: the non-overlapping occurrences,
\* from the left
RECURSIVE Replace(_, _, _)
Replace(s, key, rep) ==
    IF Len(s) < Len(key) THEN s
    ELSE IF SubSeq(s, 1, Len(key)) = key
         THEN rep \o Replace(SubSeq(s, Len(key) + 1, Len(s)), key, rep)
         ELSE <<s[1]>> \o Replace(Tail(s), key, rep)

\* the length of the run of characters of cs at the head of s
RECURSIVE RunLen(_, _)
RunLen(s, cs) == IF s = <<>> \/ Head(s) \notin cs THEN 0
                 ELSE 1 + RunLen(Tail(s), cs)

\* the value of a run of decimal digits
RECURSIVE DecVal(_)
DecVal(ds) == IF ds = <<>> THEN 0
              ELSE DecVal(SubSeq(ds, 1, Len(ds) - 1)) * 10 + DigitVal[ds[Len(ds)]]

\* The tokens of an expression of digits, operators and parentheses, as the
\* tokenizer behind ast.parse reads them; <<"error">> ends the sequence at a
\* character or literal it rejects (a decimal literal with a leading zero
\* that is not all zeros).
RECURSIVE Tokens(_)
Tokens(s) ==
    IF s = <<>> THEN <<>>
    ELSE IF Head(s) \in Digits THEN
        LET n == RunLen(s, Digits)
            ds == SubSeq(s, 1, n)
        IN  IF n > 1 /\ ds[1] = "0" /\ \E i \in 1..n : ds[i] # "0"
            THEN <<[k |-> "error"]>>
            ELSE <<[k |-> "num", v |-> DecVal(ds)]>>
                     \o Tokens(SubSeq(s, n + 1, Len(s)))
    ELSE IF Head(s) \in {"*", "/"} /\ Len(s) > 1 /\ s[2] = Head(s)
        THEN <<[k |-> IF Head(s) = "*" THEN "**" ELSE "//"]>>
                 \o Tokens(SubSeq(s, 3, Len(s)))
    ELSE IF Head(s) \in {"+", "-", "*", "/", "^", "(", ")"}
        THEN <<[k |-> Head(s)]>> \o Tokens(Tail(s))
    ELSE <<[k |-> "error"]>>


\* A parse step: the node read and the position after it, or a failure
Parsed(n, p) == [ok |-> TRUE, n |-> n, p |-> p]
NoParse == [ok |-> FALSE]
\* the kind of token p of ts, "end" past the last one
Tok(ts, p) == IF p <= Len(ts) THEN ts[p].k ELSE "end"

\* ast.parse(expr, mode='eval') on the tokens ts, by the grammar
\*   xor: arith ('^' arith)*      arith: term (('+'|'-') term)*
\*   term: factor (('*'|'/'|'//') factor)*
\*   factor: ('+'|'-') factor | power      power: primary ['**' factor]
\*   primary: atom ('(' [['*'|'**'] xor] ')')*     atom: NUM | '(' [xor] ')'
RECURSIVE ParseXor(_, _), ParseXorRest(_, _, _), ParseArith(_, _),
          ParseArithRest(_, _, _), ParseTerm(_, _), ParseTermRest(_, _, _),
          ParseFactor(_, _), ParsePower(_, _), ParseTrailers(_, _, _),
          ParseAtom(_, _)

BinOp(op, left, right) ==
    [k |-> "BinOp", op |-> op, left |-> left, right |-> right]

\* the expression r in parentheses, once its ')' is read
Closed(ts, r) ==
    IF r.ok /\ Tok(ts, r.p) = ")" THEN Parsed(r.n, r.p + 1) ELSE NoParse

ParseAtom(ts, p) ==
    IF Tok(ts, p) = "num"
        THEN Parsed([k |-> "Num", n |-> PInt(ts[p].v)], p + 1)
    ELSE IF Tok(ts, p) = "(" THEN
        IF Tok(ts, p + 1) = ")" THEN Parsed([k |-> "Tuple"], p + 2)
        ELSE Closed(ts, ParseXor(ts, p + 1))
    ELSE NoParse

\* a call with the argument r, and the trailers after it
Called(ts, r) ==
    IF r.ok /\ Tok(ts, r.p) = ")"
    THEN ParseTrailers(ts, [k |-> "Call"], r.p + 1)
    ELSE NoParse

ParseTrailers(ts, n, p) ==
    IF Tok(ts, p) # "(" THEN Parsed(n, p)
    ELSE IF Tok(ts, p + 1) = ")"
        THEN ParseTrailers(ts, [k |-> "Call"], p + 2)
    ELSE Called(ts, ParseXor(ts, IF Tok(ts, p + 1) \in {"*", "**"}
                                 THEN p + 2 ELSE p + 1))

\* the primary t to the power f
Raised(t, f) ==
    IF ~f.ok THEN NoParse ELSE Parsed(BinOp("**", t.n, f.n), f.p)

\* the power whose primary is t
PowerOf(ts, t) ==
    IF ~t.ok THEN NoParse
    ELSE IF Tok(ts, t.p) # "**" THEN t
    ELSE Raised(t, ParseFactor(ts, t.p + 1))

\* the primary whose atom is a
Primary(ts, a) ==
    IF ~a.ok THEN NoParse ELSE ParseTrailers(ts, a.n, a.p)

ParsePower(ts, p) == PowerOf(ts, Primary(ts, ParseAtom(ts, p)))

\* the factor f under a sign
Signed(op, f) ==
    IF ~f.ok THEN NoParse
    ELSE Parsed([k |-> "UnaryOp", op |-> op, operand |-> f.n], f.p)

ParseFactor(ts, p) ==
    IF Tok(ts, p) \in {"+", "-"} THEN Signed(Tok(ts, p), ParseFactor(ts, p + 1))
    ELSE ParsePower(ts, p)

\* left op f, and the factors after it
TermWith(ts, op, left, f) ==
    IF ~f.ok THEN NoParse ELSE ParseTermRest(ts, BinOp(op, left, f.n), f.p)

ParseTermRest(ts, left, p) ==
    IF Tok(ts, p) \notin {"*", "/", "//"} THEN Parsed(left, p)
    ELSE TermWith(ts, Tok(ts, p), left, ParseFactor(ts, p + 1))

\* the term that starts with the factor f
TermFrom(ts, f) == IF ~f.ok THEN NoParse ELSE ParseTermRest(ts, f.n, f.p)

ParseTerm(ts, p) == TermFrom(ts, ParseFactor(ts, p))

\* left op f, and the terms after it
ArithWith(ts, op, left, f) ==
    IF ~f.ok THEN NoParse ELSE ParseArithRest(ts, BinOp(op, left, f.n), f.p)

ParseArithRest(ts, left, p) ==
    IF Tok(ts, p) \notin {"+", "-"} THEN Parsed(left, p)
    ELSE ArithWith(ts, Tok(ts, p), left, ParseTerm(ts, p + 1))

\* the sum that starts with the term f
ArithFrom(ts, f) == IF ~f.ok THEN NoParse ELSE ParseArithRest(ts, f.n, f.p)

ParseArith(ts, p) == ArithFrom(ts, ParseTerm(ts, p))

\* left ^ f, and the sums after it
XorWith(ts, left, f) ==
    IF ~f.ok THEN NoParse ELSE ParseXorRest(ts, BinOp("^", left, f.n), f.p)

ParseXorRest(ts, left, p) ==
    IF Tok(ts, p) # "^" THEN Parsed(left, p)
    ELSE XorWith(ts, left, ParseArith(ts, p + 1))

\* the xor that starts with the sum f
XorFrom(ts, f) == IF ~f.ok THEN NoParse ELSE ParseXorRest(ts, f.n, f.p)

ParseXor(ts, p) == XorFrom(ts, ParseArith(ts, p))

\* the whole of ts parsed as r
Whole(ts, r) ==
    IF r.ok /\ r.p = Len(ts) + 1 THEN Return(r.n) ELSE Raise("SyntaxError")

\* ast.parse(expr, mode='eval').body, or SyntaxError
ast_parse(ts) == Whole(ts, ParseXor(ts, 1))


\* a ^ b on naturals
RECURSIVE NatXor(_, _)
NatXor(a, b) == IF a = 0 THEN b ELSE IF b = 0 THEN a
                ELSE ((a + b) % 2) + 2 * NatXor(a \div 2, b \div 2)

\* ~a on ints
BitNot(a) == -a - 1

\* op.xor on ints (two's complement of unbounded width)
IntXor(a, b) ==
    IF a >= 0 /\ b >= 0 THEN NatXor(a, b)
    ELSE IF a < 0 /\ b < 0 THEN NatXor(BitNot(a), BitNot(b))
    ELSE IF a < 0 THEN BitNot(NatXor(BitNot(a), b))
    ELSE BitNot(NatXor(a, BitNot(b)))

\* a ** e for a natural e
RECURSIVE RPow(_, _)
RPow(a, e) == IF e = 0 THEN One ELSE RMul(a, RPow(a, e - 1))

\* the type of the result of an arithmetic operator
NumType(a, b) == IF a.t = "int" /\ b.t = "int" THEN "int" ELSE "float"
Num(t, q) == [t |-> t, v |-> q]

\* op.pow.  A power this arithmetic cannot hold (a fractional exponent, or a
\* result past the integers of the checker) is "OutOfModel".
op_pow(a, b) ==
    IF ~RIsInt(b.v) \/ Abs(b.v[1]) > 6 \/ Abs(a.v[1]) > 30 \/ a.v[2] > 30
        THEN Raise("OutOfModel")
    ELSE IF b.v[1] >= 0 THEN Return(Num(NumType(a, b), RPow(a.v, b.v[1])))
    ELSE IF a.v = Zero THEN Raise("ZeroDivisionError")
    ELSE Return(Num("float", RDiv(One, RPow(a.v, -b.v[1]))))

\* operators[type(node.op)](a, b) for the binary operators of the table
operators(op, a, b) ==
    CASE op = "+" -> Return(Num(NumType(a, b), RAdd(a.v, b.v)))
      [] op = "-" -> Return(Num(NumType(a, b), RSub(a.v, b.v)))
      [] op = "*" -> Return(Num(NumType(a, b), RMul(a.v, b.v)))
      [] op = "/" -> IF b.v = Zero THEN Raise("ZeroDivisionError")
                     ELSE Return(Num("float", RDiv(a.v, b.v)))
      [] op = "**" -> op_pow(a, b)
      [] op = "^" -> IF a.t = "int" /\ b.t = "int"
                     THEN Return(Num("int", RInt(IntXor(a.v[1], b.v[1]))))
                     ELSE Raise("TypeError")

RECURSIVE eval_(_)
eval_(node) ==
    IF node.k = "Num" THEN Return(node.n)
    ELSE IF node.k = "BinOp" THEN
        IF node.op \notin {"+", "-", "*", "/", "**", "^"} THEN Raise("KeyError")
        ELSE LET l == eval_(node.left) IN
             IF ~l.ok THEN l
             ELSE LET r == eval_(node.right) IN
                  IF ~r.ok THEN r ELSE operators(node.op, l.v, r.v)
    ELSE IF node.k = "UnaryOp" THEN
        IF node.op # "-" THEN Raise("KeyError")
        ELSE LET o == eval_(node.operand) IN
             IF ~o.ok THEN o ELSE Return(Num(o.v.t, RNeg(o.v.v)))
    ELSE Raise("TypeError")

\* the value of the parsed expression tree
Evaluated(tree) == IF ~tree.ok THEN tree ELSE eval_(tree.v)

eval_expr(expr) == Evaluated(ast_parse(Tokens(expr)))

\* for key, value in dictionary.items(): exp = exp.replace(key, str(value))
RECURSIVE Substitute(_, _)
Substitute(exp, items) ==
    IF items = <<>> THEN exp
    ELSE Substitute(Replace(exp, Head(items)[1], StrOfInt(Head(items)[2])),
                    Tail(items))

\* The dictionary is the sequence of its <<key, value>> items in insertion
\* order, the values ints.
get_value_of_exp(exp, dictionary) ==
    IF IsNumber(exp) THEN Return(exp)
    ELSE IF exp.t # "str"
        THEN Raise(IF dictionary # <<>> THEN "AttributeError" ELSE "TypeError")
    ELSE LET e == Substitute(exp.v, dictionary) IN
         IF \E i \in 1..Len(e) : e[i] \in Letters THEN Return(PStr(e))
         ELSE eval_expr(e)


(***************************************************************************)
(* Parameter resolver                                                      *)
(***************************************************************************)
\* replace_matched_items and replace_in_set on the members xs of a list or
\* of a set: a list is resolved member by member, a set by replace_in_set,
\* any other member by get_value_of_exp.
RECURSIVE ResolveItems(_, _, _)

\* the list, or the set, of the resolved members m
Collected(t, m) ==
    IF ~m.ok THEN m ELSE Return(IF t = "set" THEN PSet(m.v) ELSE PList(m.v))

\* the member x resolved
ResolveItem(x, dictionary, in_set) ==
    IF ~in_set /\ x.t = "set"
        THEN Collected("set", ResolveItems(x.v, dictionary, TRUE))
    ELSE IF ~in_set /\ x.t = "list"
        THEN Collected("list", ResolveItems(x.v, dictionary, FALSE))
    ELSE get_value_of_exp(x, dictionary)

\* out.append(first), before the members rest
Appended(first, rest) ==
    IF ~rest.ok THEN rest ELSE Return(<<first.v>> \o rest.v)

\* the members xs resolved, the first of them to first
ItemsFrom(first, xs, dictionary, in_set) ==
    IF ~first.ok THEN first
    ELSE Appended(first, ResolveItems(Tail(xs), dictionary, in_set))

ResolveItems(xs, dictionary, in_set) ==
    IF xs = <<>> THEN Return(<<>>)
    ELSE ItemsFrom(ResolveItem(Head(xs), dictionary, in_set), xs, dictionary,
                   in_set)

replace_matched_items(elements, dictionary) ==
    Collected("list", ResolveItems(elements.v, dictionary, FALSE))

(***************************************************************************)
(* Ring allocator                                                          *)
(***************************************************************************)
\* a[0]
Item0(a) ==
    IF a.t \notin {"list", "str"} THEN Raise("TypeError")
    ELSE IF a.v = <<>> THEN Raise("IndexError")
    ELSE Return(IF a.t = "list" THEN a.v[1] ELSE PStr(<<a.v[1]>>))

\* [a[0] for a in elements]
RECURSIVE Offsets(_)
Offsets(rings) ==
    IF rings = <<>> THEN Return(<<>>)
    ELSE LET o == Item0(Head(rings)) IN
         IF ~o.ok THEN o
         ELSE LET rest == Offsets(Tail(rings)) IN
              IF ~rest.ok THEN rest ELSE Return(<<o.v>> \o rest.v)

\* for offset in offsets: r -= offset; out.append(r)
RECURSIVE Radii(_, _)
Radii(r, offsets) ==
    IF offsets = <<>> THEN Return(<<>>)
    ELSE IF ~IsNumber(Head(offsets)) THEN Raise("TypeError")
    ELSE LET rest == Radii(RSub(r, Head(offsets).v), Tail(offsets)) IN
         IF ~rest.ok THEN rest
         ELSE Return(<<RSub(r, Head(offsets).v)>> \o rest.v)

get_rs(elements) ==
    LET offsets == Offsets(elements.v) IN
    IF ~offsets.ok THEN offsets ELSE Radii(RInt(100), offsets.v)

(***************************************************************************)
(* Shape renderer.  An angle rad = fi * 2 * pi - pi / 2 is held as the     *)
(* fraction of a turn fi, and a point as its angle and its radius: a       *)
(* fragment is the record of the numbers its markup is formatted from.     *)
(***************************************************************************)
S_line == <<"l", "i", "n", "e">>
S_rounded_line == <<"r", "o", "u", "n", "d", "e", "d", "_", "l", "i", "n", "e">>
S_two_lines == <<"t", "w", "o", "_", "l", "i", "n", "e", "s">>
S_circle == <<"c", "i", "r", "c", "l", "e">>
S_triangle == <<"t", "r", "i", "a", "n", "g", "l", "e">>
S_number == <<"n", "u", "m", "b", "e", "r">>
S_minute == <<"m", "i", "n", "u", "t", "e">>
S_roman == <<"r", "o", "m", "a", "n">>
S_hour == <<"h", "o", "u", "r">>
S_horizontal == <<"h", "o", "r", "i", "z", "o", "n", "t", "a", "l">>
S_rotating == <<"r", "o", "t", "a", "t", "i", "n", "g">>
S_upright == <<"u", "p", "r", "i", "g", "h", "t">>

\* the names of the enumeration Shape
Shape == {S_line, S_rounded_line, S_two_lines, S_circle, S_triangle, S_number}

ObjParams(shape, r, fi, args) == [shape |-> shape, r |-> r, fi |-> fi, args |-> args]
GrpRanges(r, ranges) == [r |-> r, ranges |-> ranges]

\* x == "text" for a Python value x
IsStr(x, text) == x.t = "str" /\ x.v = text

\* round(q): to the nearest integer, a half to the even one
round(q) ==
    LET f == q[1] \div q[2]
        twice == 2 * (q[1] - f * q[2])
    IN  IF twice < q[2] THEN f
        ELSE IF twice > q[2] THEN f + 1
        ELSE IF f % 2 = 0 THEN f ELSE f + 1

\* (deg + pi / 2) / (2 * pi) is the fraction fi
deg_to_time(fi, factor) ==
    LET i == round(RMul(fi, RInt(factor))) IN
    IF i = 0 THEN factor ELSE i

get_hour(fi) == deg_to_time(fi, 12)
get_minute(fi) == deg_to_time(fi, 60)

\* ROMAN has the keys 1..12
get_num_str(kind, fi) ==
    IF IsStr(kind, S_minute) THEN Return(<<"arabic", get_minute(fi)>>)
    ELSE IF IsStr(kind, S_roman) THEN
        IF get_hour(fi) \in 1..12 THEN Return(<<"roman", get_hour(fi)>>)
        ELSE Raise("KeyError")
    ELSE Return(<<"arabic", get_hour(fi)>>)

\* in degrees; 0 < deg < pi is 1/4 < fi < 3/4
get_num_rotation(orient, fi) ==
    IF IsStr(orient, S_horizontal) THEN Zero
    ELSE IF IsStr(orient, S_rotating) THEN RMul(fi, RInt(360))
    ELSE LET delta == IF RLt(Rat(1, 4), fi) /\ RLt(fi, Rat(3, 4))
                      THEN RInt(180) ELSE Zero
         IN  RAdd(RMul(fi, RInt(360)), delta)

\* ranges = get_ranges(prms.fi, compute_angular_width(width, 100 - prms.r))
\* and the fragment svg, for a width that may be no number
Drawn(prms, width, svg) ==
    IF ~IsNumber(width) THEN Raise("TypeError")
    ELSE LET w == compute_angular_width(width.v, RSub(RInt(100), prms.r)) IN
         IF ~w.ok THEN w
         ELSE Return([ranges |-> get_ranges(prms.fi.v, w.v), svg |-> svg])

\* The drawers are called with prms.args a list whose first member is a
\* number (get_object has compared it with max_height).
get_line(prms) ==
    LET args == prms.args.v IN
    IF Len(args) # 2 THEN Raise("ValueError")
    ELSE IF ~IsNumber(prms.fi) THEN Raise("TypeError")
    ELSE Drawn(prms, args[2],
               [el |-> "line", fi |-> prms.fi.v, r1 |-> prms.r,
                r2 |-> RSub(prms.r, args[1].v), width |-> args[2]])

get_rounded_line(prms) ==
    LET args == prms.args.v IN
    IF Len(args) # 2 THEN Raise("ValueError")
    ELSE IF ~IsNumber(prms.fi) THEN Raise("TypeError")
    ELSE Drawn(prms, args[2],
               [el |-> "rect", y |-> prms.r,
                rot |-> RSub(RMul(prms.fi.v, RInt(360)), RInt(180)),
                height |-> args[1].v, width |-> args[2]])

\* ri and ro are bound nowhere: reading ri raises NameError
get_two_lines(prms) ==
    LET args == prms.args.v IN
    IF Len(args) # 3 THEN Raise("ValueError")
    ELSE IF ~IsNumber(prms.fi) THEN Raise("TypeError")
    ELSE Raise("NameError")

get_circle(prms) ==
    LET diameter == prms.args.v[1] IN
    IF ~IsNumber(prms.fi) THEN Raise("TypeError")
    ELSE Drawn(prms, diameter,
               [el |-> "circle", fi |-> prms.fi.v,
                c |-> RSub(prms.r, RDiv(diameter.v, RInt(2))),
                r |-> RDiv(diameter.v, RInt(2))])

get_triangle(prms) ==
    LET args == prms.args.v IN
    IF Len(args) # 2 THEN Raise("ValueError")
    ELSE IF ~IsNumber(prms.fi) THEN Raise("TypeError")
    ELSE Drawn(prms, args[2],
               [el |-> "polygon", fi |-> prms.fi.v, r |-> prms.r,
                height |-> args[1].v, width |-> args[2]])

get_number(prms) ==
    LET args == prms.args.v IN
    IF Len(args) \notin {3, 4} THEN Raise("ValueError")
    ELSE IF ~IsNumber(prms.fi) THEN Raise("TypeError")
    ELSE LET size == args[1]
             i == get_num_str(args[2], prms.fi.v)
         IN  IF ~i.ok THEN i
             ELSE Drawn(prms, size,
                     [el |-> "text", fi |-> prms.fi.v,
                      c |-> RSub(prms.r, RDiv(size.v, RInt(2))),
                      rot |-> get_num_rotation(args[3], prms.fi.v),
                      size |-> size.v,
                      font |-> IF Len(args) = 3 THEN PStr(<<>>) ELSE args[4],
                      i |-> i.v])

\* fun = DRAWERS[prms.shape]; ranges, svg = fun(prms)
DRAWERS(prms) ==
    CASE prms.shape = S_line -> get_line(prms)
      [] prms.shape = S_rounded_line -> get_rounded_line(prms)
      [] prms.shape = S_two_lines -> get_two_lines(prms)
      [] prms.shape = S_circle -> get_circle(prms)
      [] prms.shape = S_number -> get_number(prms)
      [] prms.shape = S_triangle -> get_triangle(prms)

\* the list ranges with the footprint added to its last group:
\* occupied_ranges[-1].ranges.extend(ranges)
Occupy(occupied_ranges, ranges) ==
    [occupied_ranges EXCEPT ![Len(occupied_ranges)].ranges = @ \o ranges]

\* ranges, svg = fun(prms); occupied_ranges[-1].ranges.extend(ranges)
Recorded(drawn, occupied_ranges) ==
    IF ~drawn.ok THEN drawn
    ELSE Return([svg |-> drawn.v.svg,
                 ranges |-> Occupy(occupied_ranges, drawn.v.ranges)])

\* the fragment and the list ranges after the call
get_svg_el(prms, occupied_ranges) == Recorded(DRAWERS(prms), occupied_ranges)

get_height(prms) == Item0(prms.args)

\* get_max_height is 100, update_height changes nothing and range_ocupied
\* is False
get_object(ranges, prms) ==
    LET height == get_height(prms) IN
    IF ~height.ok THEN height
    ELSE IF ~IsNumber(height.v) THEN Raise("TypeError")
    ELSE get_svg_el(prms, ranges)

\* The result of a step that changes the list ranges: the fragments it
\* emitted and the list as the step left it, also when it raised.
Step(err, out, ranges) == [ok |-> err = "", err |-> err, out |-> out, ranges |-> ranges]

\* the truthy members of (get_object(...) for fi in fis): every fragment
RECURSIVE get_objects(_, _, _, _, _)

\* the fragment o before the fragments rest
ObjectsAfter(o, rest) == Step(rest.err, <<o.v.svg>> \o rest.out, rest.ranges)

\* the fragments for fis, the first of them o
ObjectsFrom(o, ranges, fis, shape, args, r) ==
    IF ~o.ok THEN Step(o.err, <<>>, ranges)
    ELSE ObjectsAfter(o, get_objects(o.v.ranges, Tail(fis), shape, args, r))

get_objects(ranges, fis, shape, args, r) ==
    IF fis = <<>> THEN Step("", <<>>, ranges)
    ELSE ObjectsFrom(get_object(ranges, ObjParams(shape, r, Head(fis), args)),
                     ranges, fis, shape, args, r)

\* r = 100 - ver_pos
get_circular_border(element, ver_pos) ==
    IF element.t \notin {"list", "str"} THEN Raise("TypeError")
    ELSE IF Len(element.v) < 2 THEN Raise("IndexError")
    ELSE LET stroke_width ==
                 Item0(IF element.t = "list" THEN element.v[2]
                       ELSE PStr(<<element.v[2]>>))
         IN  IF ~stroke_width.ok THEN stroke_width
             ELSE Return([el |-> "border", r |-> RSub(RInt(100), ver_pos),
                          stroke |-> stroke_width.v])

\* one pass of the loop of get_group over an element
GroupElement(r, element, ranges) ==
    IF element.t \notin {"list", "str", "set"} THEN Step("TypeError", <<>>, ranges)
    ELSE IF Len(element.v) < 3 THEN
        LET b == get_circular_border(element, RSub(RInt(100), r)) IN
        IF b.ok THEN Step("", <<b.v>>, ranges) ELSE Step(b.err, <<>>, ranges)
    ELSE IF Len(element.v) > 3 THEN Step("ValueError", <<>>, ranges)
    ELSE LET pos == IF element.t = "str" THEN PStr(<<element.v[1]>>) ELSE element.v[1]
             shape == IF element.t = "str" THEN PStr(<<element.v[2]>>) ELSE element.v[2]
             args == IF element.t = "str" THEN PStr(<<element.v[3]>>) ELSE element.v[3]
         IN
        IF shape.t \in {"list", "set"} THEN Step("TypeError", <<>>, ranges)
        ELSE IF shape.t # "str" \/ shape.v \notin Shape
            THEN Step("KeyError", <<>>, ranges)
        ELSE LET fis == get_fis(pos) IN
        IF ~fis.ok THEN Step(fis.err, <<>>, ranges)
        ELSE IF fis.v.t = "None" THEN Step("TypeError", <<>>, ranges)
        ELSE get_objects(ranges, fis.v.v, shape.v, args, r)

RECURSIVE GroupElements(_, _, _)

\* the fragments first before the fragments rest
GroupAfter(first, rest) ==
    Step(rest.err, first.out \o rest.out, rest.ranges)

\* the loop over elements, its first pass done as first
GroupFrom(first, r, elements) ==
    IF ~first.ok THEN first
    ELSE GroupAfter(first, GroupElements(r, Tail(elements), first.ranges))

GroupElements(r, elements, ranges) ==
    IF elements = <<>> THEN Step("", <<>>, ranges)
    ELSE GroupFrom(GroupElement(r, Head(elements), ranges), r, elements)

\* the list out as get_group returns it
Grouped(g) ==
    [ok |-> g.ok, err |-> g.err, none |-> FALSE, out |-> g.out,
     ranges |-> g.ranges]

\* The list out of get_group, or none for the bare return of a ring without
\* elements.
get_group(r, elements, ranges) ==
    IF elements = <<>>
        THEN [ok |-> TRUE, err |-> "", none |-> TRUE, out |-> <<>>, ranges |-> ranges]
    ELSE Grouped(GroupElements(r, elements, Append(ranges, GrpRanges(r, <<>>))))

(***************************************************************************)
(* Markup assembler: get_svg, a step at a time                             *)
(***************************************************************************)
MaxRings == 2

\* the dictionaries {} and {"x": 10}
Dictionaries == << <<>>, << <<<<"x">>, 10>> >> >>

\* thickness offsets: 0, 10 and the expression "5*x"
OffsetInputs == <<PInt(0), PInt(10), PStr(<<"5", "*", "x">>)>>

E_border == PList(<<PStr(<<"b">>), PList(<<PInt(2)>>)>>)
E_circle == PList(<<PInt(4), PStr(S_circle), PList(<<PInt(10)>>)>>)
E_line == PList(<<PList(<<PInt(4), PFloat(Rat(1, 4)), PFloat(Rat(1, 2))>>),
                  PStr(S_line), PList(<<PInt(10), PInt(2)>>)>>)
E_two_lines == PList(<<PSet(<<PInt(0)>>), PStr(S_two_lines),
                       PList(<<PInt(10), PInt(2), PInt(1)>>)>>)
E_badpos == PList(<<PStr(<<"a", "b", "c">>), PStr(S_line),
                    PList(<<PInt(10), PInt(2)>>)>>)
E_four == PList(<<PList(<<PInt(4), PInt(0), PInt(1), PInt(7)>>),
                  PStr(S_circle), PList(<<PInt(10)>>)>>)

\* the elements of a ring
RingInputs == << <<>>, <<E_border>>, <<E_circle>>, <<E_line>>, <<E_two_lines>>,
                 <<E_badpos>>, <<E_four>>, <<E_circle, E_line>>,
                 <<E_border, E_circle>>, <<E_line, E_line>> >>

\* the description with dictionary d and the rings chosen by picks, a
\* sequence of <<offset, elements>> indices
Watch(d, picks) ==
    [dictionary |-> Dictionaries[d],
     elements |-> PList([i \in 1..Len(picks) |->
                     PList(<<OffsetInputs[picks[i][1]]>>
                               \o RingInputs[picks[i][2]])])]

NoCall == [fn |-> "none"]
FunctionsIdle == call = NoCall /\ ret = None /\ filled = <<>>
NoError == [kind |-> "", line |-> 0]

InitRender ==
    /\ \E d \in DOMAIN Dictionaries, k \in 1..MaxRings :
           \E picks \in [1..k -> (DOMAIN OffsetInputs) \X (DOMAIN RingInputs)] :
               watch = Watch(d, picks)
    /\ pc = "start"
    /\ resolved = None
    /\ rs = <<>>
    /\ visited = 0
    /\ emitted = <<>>
    /\ occupied = <<>>
    /\ markup = None
    /\ raised = NoError
    /\ FunctionsIdle

\* the tree resolved as res and the radii computed as radii
Allocated(res, radii) ==
    IF ~res.ok
    THEN /\ pc' = "raised"
         /\ raised' = [kind |-> res.err, line |-> 57]
         /\ UNCHANGED <<resolved, rs>>
    ELSE IF ~radii.ok
    THEN /\ pc' = "raised"
         /\ raised' = [kind |-> radii.err, line |-> 59]
         /\ resolved' = res.v
         /\ UNCHANGED rs
    ELSE /\ pc' = "rings"
         /\ resolved' = res.v
         /\ rs' = radii.v
         /\ UNCHANGED raised

\* rs = get_rs(elements) on the tree resolved as res
Resolved(res) == Allocated(res, IF res.ok THEN get_rs(res.v) ELSE res)

\* lines 55-60: the tree is resolved and the radii computed
Resolve ==
    /\ pc = "start"
    /\ Resolved(replace_matched_items(watch.elements, watch.dictionary))
    /\ UNCHANGED <<watch, visited, emitted, occupied, markup, call, ret, filled>>

\* the mutant of RingAt: the rings are visited first to last
RingAtForward(k, count) == k + 1

\* the ring the loop visits after k rings, of count:
\* zip(reversed(rs), reversed(elements))
RingAt(k, count) == count - k

\* out.extend(group) for the group of the ring visited
Extended(group) ==
    IF ~group.ok
    THEN /\ pc' = "raised"
         /\ raised' = [kind |-> group.err, line |-> 62]
         /\ occupied' = group.ranges
         /\ UNCHANGED <<visited, emitted>>
    ELSE IF group.none
    THEN /\ pc' = "raised"
         /\ raised' = [kind |-> "TypeError", line |-> 63]
         /\ UNCHANGED <<visited, emitted, occupied>>
    ELSE /\ emitted' = emitted \o group.out
         /\ occupied' = group.ranges
         /\ visited' = visited + 1
         /\ UNCHANGED <<pc, raised>>

\* group = get_group(r, element[1:], ranges) for ring i
Visit(i) == Extended(get_group(rs[i], Tail(resolved.v[i].v), occupied))

\* lines 61-63: one pass of the loop
VisitRing ==
    /\ pc = "rings"
    /\ visited < Len(rs)
    /\ Visit(RingAt(visited, Len(rs)))
    /\ UNCHANGED <<watch, resolved, rs, markup, call, ret, filled>>

\* line 64: ''.join(out), the fragments in the order of out
Join ==
    /\ pc = "rings"
    /\ visited = Len(rs)
    /\ pc' = "returned"
    /\ markup' = PList(emitted)
    /\ UNCHANGED <<watch, resolved, rs, visited, emitted, occupied, raised,
                   call, ret, filled>>

NextRender == Resolve \/ VisitRing \/ Join

SpecRender == InitRender /\ [][NextRender]_vars

(***************************************************************************)
(* What the description documents, read off the resolved tree              *)
(***************************************************************************)
\* the number of rings declared
RingCount == Len(resolved.v)
\* the elements declared in ring k and its resolved thickness offset
RingElements(k) == Tail(resolved.v[k].v)
RingOffset(k) == resolved.v[k].v[1].v

\* the sum of the thickness offsets of the rings 1..k
RECURSIVE OffsetSum(_)
OffsetSum(k) == IF k = 0 THEN Zero ELSE RAdd(OffsetSum(k - 1), RingOffset(k))

\* 100 minus the sum of the offsets of the rings up to k
DeclaredRadius(k) == RSub(RInt(100), OffsetSum(k))

\* an element with a position specification, a shape kind and arguments
IsShaped(element) == element.t = "list" /\ Len(element.v) = 3

\* a shape kind with the number of arguments its row of the table gives
DocumentedArgs(shape, args) ==
    /\ args.t = "list"
    /\ \/ shape \in {S_line, S_rounded_line, S_triangle} /\ Len(args.v) = 2
          /\ IsNumber(args.v[1]) /\ IsNumber(args.v[2])
       \/ shape = S_two_lines /\ Len(args.v) = 3
          /\ \A i \in 1..3 : IsNumber(args.v[i])
       \/ shape = S_circle /\ Len(args.v) = 1 /\ IsNumber(args.v[1])
       \/ shape = S_number /\ Len(args.v) \in {3, 4} /\ IsNumber(args.v[1])
          /\ args.v[2].t = "str" /\ args.v[2].v \in {S_hour, S_minute, S_roman}
          /\ args.v[3].t = "str"
          /\ args.v[3].v \in {S_horizontal, S_rotating, S_upright}

\* the linear width of a documented shape
LinearWidth(shape, args) ==
    IF shape \in {S_circle, S_number} THEN args.v[1].v
    ELSE IF shape = S_two_lines
        THEN RAdd(RMul(RInt(2), args.v[2].v), RMul(args.v[2].v, args.v[3].v))
    ELSE args.v[2].v

\* a position specification of one of the three variants
RecognisedPos(pos) ==
    \/ pos.t = "set"
    \/ pos.t = "int"
    \/ pos.t = "list" /\ Len(pos.v) \in {2, 3}

\* a position specification whose angles are numbers of [0,1)
DocumentedPos(pos) ==
    \/ pos.t = "set" /\ \A i \in 1..Len(pos.v) :
           IsNumber(pos.v[i]) /\ RLe(Zero, pos.v[i].v) /\ RLt(pos.v[i].v, One)
    \/ pos.t = "int" /\ pos.v[1] >= 1
    \/ pos.t = "list" /\ Len(pos.v) \in {2, 3} /\ pos.v[1].t = "int"
       /\ pos.v[1].v[1] >= 1 /\ \A i \in 2..Len(pos.v) : IsNumber(pos.v[i])

\* an element as the description documents it, on a ring of radius r
DocumentedElement(element, r) ==
    /\ element.t = "list"
    /\ \/ /\ Len(element.v) = 2
          /\ element.v[2].t = "list" /\ element.v[2].v # <<>>
       \/ /\ Len(element.v) = 3
          /\ DocumentedPos(element.v[1])
          /\ element.v[2].t = "str" /\ element.v[2].v \in Shape
          /\ DocumentedArgs(element.v[2].v, element.v[3])
          /\ RLt(Zero, r)
          /\ RLt(LinearWidth(element.v[2].v, element.v[3]), r)

\* the fragment of a shape at an angle, "none" where the drawer raises
DeclaredFragment(shape, r, fi, args) ==
    LET drawn == DRAWERS(ObjParams(shape, r, fi, args)) IN
    IF drawn.ok THEN drawn.v.svg ELSE [el |-> "none"]

\* the angles of a position specification in expansion order
DeclaredAngles(pos) ==
    LET fis == get_fis(pos) IN
    IF fis.ok /\ fis.v.t # "None" THEN fis.v.v ELSE <<>>

\* the fragments of an element: a border, or a fragment per angle
DeclaredElement(element, r) ==
    IF Len(element.v) < 3
    THEN <<[el |-> "border", r |-> r, stroke |-> element.v[2].v[1]]>>
    ELSE LET fis == DeclaredAngles(element.v[1]) IN
         [i \in 1..Len(fis) |->
             DeclaredFragment(element.v[2].v, r, fis[i], element.v[3])]

\* the fragments of ring k: its elements in declaration order
DeclaredRing(k) ==
    Flatten([j \in 1..Len(RingElements(k)) |->
                DeclaredElement(RingElements(k)[j], DeclaredRadius(k))])

(***************************************************************************)
(* Claims on get_svg, checked under SpecRender                             *)
(***************************************************************************)
\* C4: the rings are visited from the last declared to the first, ring k is
\* rendered with radius 100 minus the offsets of the rings 1..k, its
\* elements in declaration order and their angles in expansion order, and
\* the markup returned is the fragments in that order.
C4_VisitingOrder ==
    pc \in {"rings", "returned"} =>
        /\ emitted = Flatten([j \in 1..visited |-> DeclaredRing(RingCount + 1 - j)])
        /\ pc = "returned" => visited = RingCount /\ markup = PList(emitted)

\* a render of two rings of different radii, the first of two elements, has
\* returned
C4_Witness ==
    /\ pc = "returned"
    /\ RingCount = 2
    /\ Len(RingElements(1)) = 2
    /\ Len(RingElements(2)) = 1
    /\ rs[2] # rs[1]
    /\ Len(markup.v) > 4

\* C7: a ring without elements does not stop the render: no exception is
\* raised in the loop while the ring visited is one without elements.
C7_EmptyRingRenders ==
    (pc = "raised" /\ raised.line \in {62, 63}) =>
        RingElements(RingCount - visited) # <<>>

\* C8: a render that returns markup had no shaped element whose position
\* specification is outside the three variants.
C8_InvalidPositionFails ==
    pc = "returned" =>
        \A k \in 1..RingCount : \A j \in 1..Len(RingElements(k)) :
            IsShaped(RingElements(k)[j]) =>
                RecognisedPos(RingElements(k)[j].v[1])

\* C9: when markup is returned the radii are strictly decreasing in
\* declaration order and all greater than 0.
C9_RadiiDecreasePositive ==
    pc = "returned" =>
        \A k \in 1..Len(rs) :
            /\ RLt(Zero, rs[k])
            /\ k > 1 => RLt(rs[k], rs[k - 1])

\* the footprints of an element in placement order: none for a border
DeclaredFootprints(element, r) ==
    IF Len(element.v) < 3 THEN <<>>
    ELSE LET fis == DeclaredAngles(element.v[1]) IN
         Flatten([i \in 1..Len(fis) |->
             LET drawn == DRAWERS(ObjParams(element.v[2].v, r, fis[i],
                                            element.v[3]))
             IN  IF drawn.ok THEN drawn.v.ranges ELSE <<>>])

\* the tracker of ring k after the ring is rendered
DeclaredTracker(k) ==
    GrpRanges(DeclaredRadius(k),
              Flatten([j \in 1..Len(RingElements(k)) |->
                  DeclaredFootprints(RingElements(k)[j], DeclaredRadius(k))]))

\* the trackers hold, ring by ring in visiting order, the footprints of the
\* ring's own shapes in placement order
TrackersPerRing ==
    pc \in {"rings", "returned"} =>
        occupied = [j \in 1..visited |-> DeclaredTracker(RingCount + 1 - j)]

\* C10: in a ring whose elements are all as documented every expanded angle
\* yields its fragment, so that rendering such a ring raises nothing, and
\* the tracker of each ring rendered holds the footprints of that ring's
\* own shapes in placement order, those of the other rings left alone.
C10_EveryAngleEmits ==
    /\ TrackersPerRing
    /\ (pc = "raised" /\ raised.line = 62) =>
          \E j \in 1..Len(RingElements(RingCount - visited)) :
              ~DocumentedElement(RingElements(RingCount - visited)[j],
                                 DeclaredRadius(RingCount - visited))

(***************************************************************************)
(* The functions called on their own                                       *)
(***************************************************************************)
RenderIdle ==
    /\ watch = None
    /\ pc = "idle"
    /\ resolved = None
    /\ rs = <<>>
    /\ visited = 0
    /\ emitted = <<>>
    /\ markup = None
    /\ raised = NoError

renderVars == <<watch, pc, resolved, rs, visited, emitted, markup, raised>>

InitCall == RenderIdle /\ occupied = <<>> /\ FunctionsIdle

(***************************************************************************)
(* get_fis on a position specification                                     *)
(***************************************************************************)
MaxCount == 4

\* the bounds of a range
FisBounds == <<PInt(0), PFloat(Rat(1, 4)), PFloat(Rat(1, 3)), PFloat(Rat(1, 2)),
               PFloat(Rat(3, 4)), PInt(1)>>

\* position specifications of no recognised variant, and a set
FisOthers == <<PStr(<<"a", "b", "c">>), None, PFloat(Rat(5, 2)), PList(<<>>),
               PList(<<PInt(4)>>),
               PList(<<PInt(4), PInt(0), PInt(1), PInt(7)>>),
               PList(<<PFloat(Rat(1, 2)), PInt(1)>>),
               PList(<<PInt(4), PStr(<<"a">>)>>),
               PSet(<<PFloat(Rat(1, 2)), PInt(0)>>)>>

Expand(pos) ==
    /\ call = NoCall
    /\ call' = [fn |-> "get_fis", pos |-> pos]
    /\ ret' = get_fis(pos)
    /\ UNCHANGED <<renderVars, occupied, filled>>

ExpandCount == \E count \in -1..MaxCount : Expand(PInt(count))

ExpandRange ==
    \E count \in 0..MaxCount, i, j \in DOMAIN FisBounds :
        \/ Expand(PList(<<PInt(count), FisBounds[j]>>))
        \/ Expand(PList(<<PInt(count), FisBounds[i], FisBounds[j]>>))

ExpandOther == \E i \in DOMAIN FisOthers : Expand(FisOthers[i])

NextFis == ExpandCount \/ ExpandRange \/ ExpandOther

SpecFis == InitCall /\ [][NextFis]_vars

\* the count N and the bounds of a Count or Range specification
FisCount(pos) == IF pos.t = "int" THEN pos.v[1] ELSE pos.v[1].v[1]
FisStart(pos) == IF pos.t = "list" /\ Len(pos.v) = 3 THEN pos.v[2].v ELSE Zero
FisHasEnd(pos) == pos.t = "list"
FisEnd(pos) == pos.v[Len(pos.v)].v

\* the integers i with 0 <= i < N and start <= i/N <= end
FisQualifying(pos) ==
    {i \in 0..(FisCount(pos) - 1) :
        /\ FisStart(pos)[1] * FisCount(pos) <= i * FisStart(pos)[2]
        /\ FisHasEnd(pos) =>
               i * FisEnd(pos)[2] <= FisEnd(pos)[1] * FisCount(pos)}

\* a Count N, or a Range [N, end] or [N, start, end] of numbers
FisIsCountOrRange(pos) ==
    \/ pos.t = "int"
    \/ /\ pos.t = "list" /\ Len(pos.v) \in {2, 3}
       /\ pos.v[1].t = "int" /\ \A i \in 2..Len(pos.v) : IsNumber(pos.v[i])

\* C2: get_fis returns exactly the angles i/N, 0 <= i < N, with
\* start <= i/N <= end, each once; for a Count N >= 1 these are N angles
\* spaced 1/N apart from 0 on.
C2_ExactAngles ==
    (call.fn = "get_fis" /\ FisIsCountOrRange(call.pos)) =>
        /\ ret.ok
        /\ ret.v.t = "list"
        /\ Len(ret.v.v) = Cardinality(FisQualifying(call.pos))
        /\ \A i \in FisQualifying(call.pos) :
               \E j \in 1..Len(ret.v.v) :
                   ret.v.v[j].v = Rat(i, FisCount(call.pos))
        /\ \A j \in 1..Len(ret.v.v) :
               \E i \in FisQualifying(call.pos) :
                   ret.v.v[j].v = Rat(i, FisCount(call.pos))
        /\ (call.pos.t = "int" /\ FisCount(call.pos) >= 1) =>
               /\ Len(ret.v.v) = FisCount(call.pos)
               /\ ret.v.v[1].v = Zero
               /\ \A j \in 1..(Len(ret.v.v) - 1) :
                      RSub(ret.v.v[j + 1].v, ret.v.v[j].v)
                          = Rat(1, FisCount(call.pos))

\* the range [4, 1/4, 1/2] has been expanded to its two angles
C2_Witness ==
    /\ call.fn = "get_fis"
    /\ call.pos.t = "list"
    /\ Len(call.pos.v) = 3
    /\ FisCount(call.pos) = 4
    /\ FisStart(call.pos) = Rat(1, 4)
    /\ FisEnd(call.pos) = Rat(1, 2)
    /\ Len(ret.v.v) = 2

(***************************************************************************)
(* get_ranges and rng_intersects on the ranges recorded so far, as          *)
(* filter_positions uses them                                              *)
(***************************************************************************)
MaxFilled == 2

Positions == {Zero, Rat(1, 50), Rat(1, 4), Rat(1, 2), Rat(19, 20)}
Widths == {Zero, Rat(1, 12), Rat(1, 10), Rat(5, 6), One}
QueryPoints == {Zero, Rat(1, 5), Rat(1, 4), Rat(3, 10), Rat(1, 2), One}

\* get_ranges(pos, width), its ranges recorded
Reserve ==
    /\ Len(filled) < MaxFilled
    /\ \E pos \in Positions, width \in Widths :
        /\ call' = [fn |-> "get_ranges", pos |-> pos, width |-> width]
        /\ ret' = get_ranges(pos, width)
        /\ filled' = filled \o get_ranges(pos, width)
    /\ UNCHANGED <<renderVars, occupied>>

\* rng_intersects(rng, filled_ranges) for a range with start < end
Intersects ==
    /\ \E start, end \in QueryPoints :
        /\ RLt(start, end)
        /\ call' = [fn |-> "rng_intersects", rng |-> <<start, end>>]
        /\ ret' = rng_intersects(<<start, end>>, filled)
    /\ UNCHANGED <<renderVars, occupied, filled>>

NextTracker == Reserve \/ Intersects

SpecTracker == InitCall /\ [][NextTracker]_vars

\* the padded interval of an angle and a width
PaddedStart(pos, width) == RSub(pos, RMul(Rat(3, 5), width))
PaddedEnd(pos, width) == RAdd(pos, RMul(Rat(3, 5), width))

\* the points k/100 of [0,1)
TurnPoints == {Rat(k, 100) : k \in 0..99}

\* x, a point of [0,1), lies in the interval [start, end] taken modulo 1
InPaddedModulo(x, start, end) ==
    \E m \in -2..2 : RLe(start, RAdd(x, RInt(m))) /\ RLe(RAdd(x, RInt(m)), end)

\* x, a point of [0,1), lies in one of the ranges, 1 being the point 0
InRanges(x, rngs) ==
    \E i \in 1..Len(rngs) :
        \/ RLe(rngs[i][1], x) /\ RLe(x, rngs[i][2])
        \/ x = Zero /\ RLe(rngs[i][1], One) /\ RLe(One, rngs[i][2])

\* what C5 says of a call get_ranges(pos, width) that returned rngs
ReservedAsClaimed(pos, width, rngs) ==
    LET start == PaddedStart(pos, width)
        end == PaddedEnd(pos, width)
    IN  IF RLe(Zero, start) /\ RLe(end, One) THEN rngs = <<<<start, end>>>>
        ELSE /\ Len(rngs) = 2
             /\ \A i \in 1..2 : /\ RLe(Zero, rngs[i][1])
                                /\ RLe(rngs[i][1], rngs[i][2])
                                /\ RLe(rngs[i][2], One)
             /\ \A x \in TurnPoints :
                    InRanges(x, rngs) <=> InPaddedModulo(x, start, end)

\* C5 as stated: for every angle of [0,1) and every width >= 0 get_ranges
\* returns the padded interval when it lies within [0,1], and otherwise two
\* ranges within [0,1] whose union is the padded interval modulo 1.
C5_AnyWidth ==
    call.fn = "get_ranges" => ReservedAsClaimed(call.pos, call.width, ret)

\* C5 as amended: the same for every width from 0 to 5/6, that is while the
\* padded interval is no longer than a turn.
C5_WidthWithinTurn ==
    (call.fn = "get_ranges" /\ RLe(call.width, Rat(5, 6))) =>
        ReservedAsClaimed(call.pos, call.width, ret)

\* the width 1/10 has been reserved at the angle 1/50
C5_Witness ==
    /\ call.fn = "get_ranges"
    /\ call.pos = Rat(1, 50)
    /\ call.width = Rat(1, 10)
    /\ ret = <<<<Rat(24, 25), One>>, <<Zero, Rat(2, 25)>>>>

\* C6: over recorded ranges with start < end, rng_intersects is true exactly
\* when the range has interior overlap with a recorded range:
\* max(s, fs) < min(e, fe).
C6_InteriorOverlap ==
    (/\ call.fn = "rng_intersects"
     /\ \A i \in 1..Len(filled) : RLt(filled[i][1], filled[i][2])) =>
        (ret <=> \E i \in 1..Len(filled) :
                    RLt(RMax(call.rng[1], filled[i][1]),
                        RMin(call.rng[2], filled[i][2])))

(***************************************************************************)
(* get_object on the shapes of one ring                                    *)
(***************************************************************************)
\* the radius of the ring: 90, or 5, less than the widths drawn
ShapeRadii == {RInt(90), RInt(5)}

ShapeInputs == <<S_line, S_rounded_line, S_two_lines, S_circle, S_triangle,
                 S_number>>

FiInputs == <<PFloat(Zero), PFloat(Rat(1, 4)), PFloat(Rat(19, 20))>>

ArgInputs == <<PList(<<PInt(10), PInt(2)>>),
               PList(<<PInt(10), PInt(2), PInt(1)>>),
               PList(<<PInt(10)>>),
               PList(<<PInt(10), PStr(S_roman), PStr(S_upright)>>),
               PList(<<PInt(10), PStr(S_minute), PStr(S_rotating),
                       PStr(<<"f">>)>>),
               PList(<<>>)>>

InitShape ==
    /\ RenderIdle
    /\ FunctionsIdle
    /\ \E r \in ShapeRadii : occupied = <<GrpRanges(r, <<>>)>>

\* the call of get_object with prms has ended as o
Called_get_object(prms, o) ==
    /\ call' = [fn |-> "get_object", prms |-> prms, before |-> occupied]
    /\ ret' = IF o.ok THEN Return(o.v.svg) ELSE o
    /\ occupied' = IF o.ok THEN o.v.ranges ELSE occupied

\* get_object(ranges, prms) on the ring
Draw ==
    /\ Len(occupied[1].ranges) < MaxFilled
    /\ \E s \in DOMAIN ShapeInputs, f \in DOMAIN FiInputs, a \in DOMAIN ArgInputs :
        Called_get_object(
            ObjParams(ShapeInputs[s], occupied[1].r, FiInputs[f], ArgInputs[a]),
            get_object(occupied,
                ObjParams(ShapeInputs[s], occupied[1].r, FiInputs[f],
                          ArgInputs[a])))
    /\ UNCHANGED <<renderVars, filled>>

NextShape == Draw

SpecShape == InitShape /\ [][NextShape]_vars

\* the footprint of a documented shape of linear width w at the angle fi on
\* a ring of radius r > w
DeclaredFootprint(fi, w, r) ==
    LET start == RSub(fi, RMul(Rat(3, 5), AsinTurns(RDiv(w, r))))
        end == RAdd(fi, RMul(Rat(3, 5), AsinTurns(RDiv(w, r))))
    IN  IF RLt(start, Zero) THEN <<<<RAdd(start, One), One>>, <<Zero, end>>>>
        ELSE IF RLt(One, end) THEN <<<<start, One>>, <<Zero, RSub(end, One)>>>>
        ELSE <<<<start, end>>>>

\* C3: rendering an element of any of the six kinds with its documented
\* arguments, at an angle of [0,1), on a ring whose radius is positive and
\* larger than the linear width of the shape, raises nothing: it emits a
\* fragment, and its footprint is added to the ring's ranges.
C3_DocumentedShapeRenders ==
    (/\ call.fn = "get_object"
     /\ DocumentedArgs(call.prms.shape, call.prms.args)
     /\ RLe(Zero, call.prms.fi.v) /\ RLt(call.prms.fi.v, One)
     /\ RLt(Zero, call.prms.r)
     /\ RLt(LinearWidth(call.prms.shape, call.prms.args), call.prms.r)) =>
        /\ ret.ok
        /\ occupied[1].ranges = call.before[1].ranges \o
               DeclaredFootprint(call.prms.fi.v,
                   LinearWidth(call.prms.shape, call.prms.args), call.prms.r)

\* the five kinds other than two_lines render as documented
FiveKindsRender ==
    (call.fn = "get_object" /\ call.prms.shape # S_two_lines) =>
        C3_DocumentedShapeRenders

(***************************************************************************)
(* get_value_of_exp on an expression and a dictionary                      *)
(***************************************************************************)
MaxExpLen == 4

ExpAlphabet == {"x", "1", "2", "+", "-", "*", "/", "^", "(", ")"}

\* the expression "2*x+1"
ExpExample == <<"2", "*", "x", "+", "1">>

Expressions ==
    UNION {[1..k -> ExpAlphabet] : k \in 0..MaxExpLen} \cup {ExpExample}

\* {"x": 5, "xx": 7}, {}, {"x": 5}, {"x": -3} and {"xx": 7, "x": 5}
ExpDictionaries ==
    << << <<<<"x">>, 5>>, <<<<"x", "x">>, 7>> >>,
       <<>>,
       << <<<<"x">>, 5>> >>,
       << <<<<"x">>, -3>> >>,
       << <<<<"x", "x">>, 7>>, <<<<"x">>, 5>> >> >>

\* get_value_of_exp(exp, dictionary) on a str
ResolveExp ==
    /\ call = NoCall
    /\ \E exp \in Expressions, d \in DOMAIN ExpDictionaries :
        /\ call' = [fn |-> "get_value_of_exp", exp |-> PStr(exp),
                    dictionary |-> ExpDictionaries[d]]
        /\ ret' = get_value_of_exp(PStr(exp), ExpDictionaries[d])
    /\ UNCHANGED <<renderVars, occupied, filled>>

\* get_value_of_exp(exp, dictionary) on a number
ResolveNumber ==
    /\ call = NoCall
    /\ \E i \in -1..MaxExpLen, d \in DOMAIN ExpDictionaries :
        /\ call' = [fn |-> "get_value_of_exp", exp |-> PInt(i),
                    dictionary |-> ExpDictionaries[d]]
        /\ ret' = get_value_of_exp(PInt(i), ExpDictionaries[d])
    /\ UNCHANGED <<renderVars, occupied, filled>>

NextExp == ResolveExp \/ ResolveNumber

SpecExp == InitCall /\ [][NextExp]_vars

\* the value of key in the dictionary
HasKey(dictionary, key) == \E i \in 1..Len(dictionary) : dictionary[i][1] = key
ValueOf(dictionary, key) ==
    dictionary[CHOOSE i \in 1..Len(dictionary) : dictionary[i][1] = key][2]

\* The expression as it is read by hand: every name is a key and stands for
\* its value as one operand, '^' is the power operator; "error" where a name
\* is no key or an operator is none of + - * / ^.
RECURSIVE HandTokens(_, _)
HandTokens(s, dictionary) ==
    IF s = <<>> THEN <<>>
    ELSE IF Head(s) \in Letters THEN
        LET len == RunLen(s, Letters)
            key == SubSeq(s, 1, len)
        IN  IF ~HasKey(dictionary, key) THEN <<[k |-> "error"]>>
            ELSE LET val == ValueOf(dictionary, key) IN
                 <<[k |-> "("]>>
                     \o (IF val < 0 THEN <<[k |-> "-"]>> ELSE <<>>)
                     \o <<[k |-> "num", v |-> Abs(val)], [k |-> ")"]>>
                     \o HandTokens(SubSeq(s, len + 1, Len(s)), dictionary)
    ELSE IF Head(s) \in Digits THEN
        LET len == RunLen(s, Digits) IN
        <<[k |-> "num", v |-> DecVal(SubSeq(s, 1, len))]>>
            \o HandTokens(SubSeq(s, len + 1, Len(s)), dictionary)
    ELSE IF Head(s) \in {"*", "/"} /\ Len(s) > 1 /\ s[2] = Head(s)
        THEN <<[k |-> "error"]>>
    ELSE IF Head(s) = "^" THEN <<[k |-> "**"]>> \o HandTokens(Tail(s), dictionary)
    ELSE <<[k |-> Head(s)]>> \o HandTokens(Tail(s), dictionary)

\* the value by hand, with the precedence of arithmetic, or a failure where
\* the expression is not one of the grammar or has no value
ByHand(exp, dictionary) ==
    LET tree == ast_parse(HandTokens(exp, dictionary)) IN
    IF ~tree.ok THEN tree ELSE eval_(tree.v)

\* no key of the dictionary occurs inside another key
KeysApart(dictionary) ==
    \A i, j \in 1..Len(dictionary) :
        i # j => \A p \in 1..(Len(dictionary[j][1]) - Len(dictionary[i][1]) + 1) :
            SubSeq(dictionary[j][1], p, p + Len(dictionary[i][1]) - 1)
                # dictionary[i][1]

\* the call resolved a str of the grammar that has a value by hand
ExpOfGrammar ==
    /\ call.fn = "get_value_of_exp"
    /\ call.exp.t = "str"
    /\ ByHand(call.exp.v, call.dictionary).ok

\* the call returned the number the expression has by hand
SameAsByHand ==
    /\ ret.ok
    /\ IsNumber(ret.v)
    /\ ret.v.v = ByHand(call.exp.v, call.dictionary).v.v

\* C1: resolving an expression of keys, literals, parentheses, + - * / ^
\* and unary minus against a dictionary returns the number the expression
\* has by hand, '^' being right-associative power.
C1_SameAsByHand == ExpOfGrammar => SameAsByHand

\* Where the resolver agrees with the value by hand: the expressions without
\* '^' against the dictionaries none of whose keys occurs inside another.
SameAsByHandApart ==
    (/\ ExpOfGrammar
     /\ \A i \in 1..Len(call.exp.v) : call.exp.v[i] # "^"
     /\ KeysApart(call.dictionary)) => SameAsByHand

\* "2*x+1" has been resolved against {"x": 5}, to 11
ExampleResolved ==
    /\ call.fn = "get_value_of_exp"
    /\ call.exp.t = "str"
    /\ call.exp.v = ExpExample
    /\ call.dictionary = ExpDictionaries[3]
    /\ ret = Return(PInt(11))

=============================================================================
